---- MODULE Spec2Model ----
(***************************************************************************)
(* The channel demonstrations of hello.go: testSyncWithWorker,             *)
(* testChannelDirections, testSelect, testNonBlockingChannelsWithSelect    *)
(* and testClosingChannels.  One behaviour runs one of these functions:    *)
(* its calling goroutine ("main") and the goroutines it starts.            *)
(*                                                                         *)
(* Channels are Go channels: a FIFO buffer of make's capacity and a closed *)
(* flag.  A send on a channel with buffer room completes alone; a send on  *)
(* a channel without room parks the sender until a receiver takes its      *)
(* value, which is one joint step of sender and receiver.                  *)
(*                                                                         *)
(* Time is counted in whole seconds.  time.Sleep(d) pauses for at least d  *)
(* and a time.After(d) timer is ready no earlier than d after the select   *)
(* that made it was entered (the guarantees of the time package).  Nothing *)
(* bounds when a goroutine that can run does run: the clock may advance    *)
(* past any of them.  MaxLate bounds how far it may run past a sleep's end *)
(* or a select's deadline; stalled records that it has passed a goroutine  *)
(* that could have run.                                                    *)
(***************************************************************************)
EXTENDS Integers, Sequences, FiniteSets, TLC

VARIABLES fn, msg, pc, buf, closed, now, wakeAt, readyAt, deadline, selStart,
          i, j, cj, more, pongMsg, out, stalled

vars == <<fn, msg, pc, buf, closed, now, wakeAt, readyAt, deadline, selStart,
          i, j, cj, more, pongMsg, out, stalled>>

\* How far, in seconds, the clock may run past the end of a time.Sleep or
\* the deadline of a select before the goroutine waiting on it runs
MaxLate == 1

\* The functions under study
Functions == {"testSyncWithWorker", "testChannelDirections", "testSelect",
              "testNonBlockingChannelsWithSelect", "testClosingChannels"}

\* The goroutines: the caller, testSelect's two producers, worker, and
\* testClosingChannels' consumer
Procs == {"main", "p1", "p2", "worker", "consumer"}

Chans == {"done", "channelOne", "channelTwo", "c1", "c2",
          "channel1", "channel2", "jobs"}

\* Messages handed to ping
Msgs == {"my sweet message", "pong"}

\* make(chan bool, 1) in testSyncWithWorker
DoneCap == 1
\* make(chan string, 1), twice, in testChannelDirections
ChannelOneCap == 1
ChannelTwoCap == 1
\* make(chan int, 5) in testClosingChannels
JobsCap == 5
\* for j := 1; j <= 3; j++
NumJobs == 3
\* for i := 0; i < 2; i++
NumWaits == 2
\* time.After(5 * time.Second)
TimeoutSecs == 5

\* A capacity of zero everywhere: every channel unbuffered
CapUnbuffered(c) == 0

\* A capacity of one everywhere: every channel buffered
CapBuffered(c) == 1

\* The capacity each make gives its channel
Cap(c) ==
    CASE c = "done" -> IF fn = "testSyncWithWorker" THEN DoneCap ELSE 0
      [] c = "channelOne" -> ChannelOneCap
      [] c = "channelTwo" -> ChannelTwoCap
      [] c = "jobs" -> JobsCap
      [] OTHER -> 0

\* Both producers sleeping one second
SleepDurSame(p) == 1

\* The argument of each time.Sleep, in seconds
SleepDur(p) ==
    CASE p = "p1" -> 1
      [] p = "p2" -> 2
      [] OTHER -> 1

\* The label a goroutine continues at once its time.Sleep returns
AfterSleep(p) == IF p = "worker" THEN "printDone" ELSE "send"

\* The channel a goroutine is sending on at its current statement, if any
SendChan(p) ==
    CASE p = "p1" /\ pc[p] = "send" -> "c1"
      [] p = "p2" /\ pc[p] = "send" -> "c2"
      [] p = "worker" /\ pc[p] = "send" -> "done"
      [] p = "consumer" /\ pc[p] = "sendDone" -> "done"
      [] p = "main" /\ pc[p] = "ping" -> "channelOne"
      [] p = "main" /\ pc[p] = "pongSend" -> "channelTwo"
      [] p = "main" /\ pc[p] = "send" -> "jobs"
      [] OTHER -> "none"

\* The goroutines parked in a send on channel c
Senders(c) == {p \in Procs : SendChan(p) = c /\ Len(buf[c]) >= Cap(c)}

\* The channels a goroutine is blocked receiving from at its current statement
RecvChans(p) ==
    CASE p = "main" /\ pc[p] = "select" -> {"c1", "c2"}
      [] p = "main" /\ pc[p] = "recv" -> {"done"}
      [] p = "main" /\ pc[p] = "recvDone" -> {"done"}
      [] p = "main" /\ pc[p] = "pongRecv" -> {"channelOne"}
      [] p = "main" /\ pc[p] = "final" -> {"channelTwo"}
      [] p = "consumer" /\ pc[p] = "recv" -> {"jobs"}
      [] OTHER -> {}

\* The goroutines parked in a receive on channel c
Receivers(c) == {p \in Procs : c \in RecvChans(p)}

\* The label a parked sender continues at once its value is taken
AfterSend(p) ==
    CASE p = "main" /\ pc[p] = "ping" -> "pongRecv"
      [] p = "main" /\ pc[p] = "pongSend" -> "final"
      [] p = "main" /\ pc[p] = "send" -> "printSent"
      [] OTHER -> "end"

\* A receive reports the channel closed on every closed channel, drained or not
ClosedNowEager(c) == closed[c]

\* A receive never reports the channel closed
ClosedNowNever(c) == FALSE

\* A receive reports the channel closed: closed and nothing left to receive
ClosedNow(c) == closed[c] /\ Len(buf[c]) = 0

\* A receive on c can complete
RecvReady(c) == Len(buf[c]) > 0 \/ Senders(c) # {} \/ ClosedNow(c)

\* A send on c can complete
SendReady(c) == Len(buf[c]) < Cap(c) \/ Receivers(c) # {}

\* The value a goroutine sends at its current statement
SendVal(p) ==
    CASE p = "p1" -> "one"
      [] p = "p2" -> "two"
      [] p = "main" /\ pc[p] = "ping" -> msg
      [] p = "main" /\ pc[p] = "pongSend" -> pongMsg
      [] p = "main" /\ pc[p] = "send" -> j
      [] OTHER -> TRUE

\* The zero value of a channel's element type
Zero(c) ==
    CASE c = "jobs" -> 0
      [] c = "done" -> FALSE
      [] OTHER -> ""

\* What a receive on c yields: the value, the ok flag (false only on a closed,
\* drained channel) and where the value came from (the buffer or a parked sender)
RecvOutcomes(c) ==
    IF ClosedNow(c) THEN {[val |-> Zero(c), ok |-> FALSE, from |-> "closed"]}
    ELSE IF Len(buf[c]) > 0 THEN {[val |-> Head(buf[c]), ok |-> TRUE, from |-> "buf"]}
    ELSE {[val |-> SendVal(p), ok |-> TRUE, from |-> p] : p \in Senders(c)}

\* The buffers after the receive with outcome o on c
BufAfterRecv(c, o) ==
    IF o.from = "buf" THEN [buf EXCEPT ![c] = Tail(@)] ELSE buf

\* The program counters after goroutine p's receive with outcome o: p goes to
\* next, and the sender whose value was taken goes on past its send
PcAfterRecv(p, next, o) ==
    IF o.from \in Procs
    THEN [pc EXCEPT ![p] = next, ![o.from] = AfterSend(o.from)]
    ELSE [pc EXCEPT ![p] = next]

\* A line written by fmt.Println: its text and its argument
Line(text, arg) == <<text, arg>>

Init ==
    /\ fn \in Functions
    /\ msg \in (IF fn = "testChannelDirections" THEN Msgs ELSE {"my sweet message"})
    /\ pc = [p \in Procs |->
               IF p = "main"
               THEN CASE fn = "testSyncWithWorker" -> "go"
                      [] fn = "testChannelDirections" -> "ping"
                      [] fn = "testSelect" -> "go1"
                      [] fn = "testNonBlockingChannelsWithSelect" -> "selectRead"
                      [] fn = "testClosingChannels" -> "go"
               ELSE "none"]
    /\ buf = [c \in Chans |-> <<>>]
    /\ closed = [c \in Chans |-> FALSE]
    /\ now = 0
    /\ wakeAt = [p \in Procs |-> 0]
    /\ readyAt = [p \in Procs |-> 0]
    /\ deadline = 0
    /\ selStart = 0
    /\ i = 0
    /\ j = 1
    /\ cj = 0
    /\ more = TRUE
    /\ pongMsg = ""
    /\ out = <<>>
    /\ stalled = FALSE

(***************************************************************************)
(* time.Sleep and the clock                                                *)
(***************************************************************************)

\* time.Sleep(d) begins: the goroutine pauses until at least d from now
Sleep(p) ==
    /\ p \in {"p1", "p2", "worker"}
    /\ pc[p] = "start"
    /\ pc' = [pc EXCEPT ![p] = "sleeping"]
    /\ wakeAt' = [wakeAt EXCEPT ![p] = now + SleepDur(p)]
    /\ UNCHANGED <<fn, stalled, msg, buf, closed, now, readyAt, deadline, selStart,
                   i, j, cj, more, pongMsg, out>>

\* time.Sleep returns, no earlier than asked
Wake(p) ==
    /\ pc[p] = "sleeping"
    /\ now >= wakeAt[p]
    /\ pc' = [pc EXCEPT ![p] = AfterSleep(p)]
    /\ readyAt' = [readyAt EXCEPT ![p] = now]
    /\ UNCHANGED <<fn, stalled, msg, buf, closed, now, wakeAt, deadline, selStart,
                   i, j, cj, more, pongMsg, out>>

(***************************************************************************)
(* testSelect                                                              *)
(***************************************************************************)

\* go func() { time.Sleep(1 * time.Second); c1 <- "one" }()
SelectGo1 ==
    /\ fn = "testSelect" /\ pc["main"] = "go1"
    /\ pc' = [pc EXCEPT !["main"] = "go2", !["p1"] = "start"]
    /\ UNCHANGED <<fn, stalled, msg, buf, closed, now, wakeAt, readyAt, deadline, selStart,
                   i, j, cj, more, pongMsg, out>>

\* go func() { time.Sleep(2 * time.Second); c2 <- "two" }()
SelectGo2 ==
    /\ fn = "testSelect" /\ pc["main"] = "go2"
    /\ pc' = [pc EXCEPT !["main"] = "loop", !["p2"] = "start"]
    /\ UNCHANGED <<fn, stalled, msg, buf, closed, now, wakeAt, readyAt, deadline, selStart,
                   i, j, cj, more, pongMsg, out>>

\* A timer that is ready a second after it was asked to be
AfterLate(t, d) == t + d + 1

\* The instant the timer time.After(d), made at time t, becomes ready
After(t, d) == t + d

\* for i := 0; i < 2; i++: enter the select, which makes its timer, or leave
SelectLoop ==
    /\ fn = "testSelect" /\ pc["main"] = "loop"
    /\ IF i < NumWaits
       THEN /\ pc' = [pc EXCEPT !["main"] = "select"]
            /\ deadline' = After(now, TimeoutSecs)
            /\ selStart' = now
       ELSE /\ pc' = [pc EXCEPT !["main"] = "ret"]
            /\ UNCHANGED <<deadline, selStart>>
    /\ UNCHANGED <<fn, stalled, msg, buf, closed, now, wakeAt, readyAt,
                   i, j, cj, more, pongMsg, out>>

\* The select's timer case is ready
TimerReady == now >= deadline

\* case msg1 := <-c1 / case msg2 := <-c2: one ready receive is taken
SelectRecv ==
    /\ fn = "testSelect" /\ pc["main"] = "select"
    /\ \E c \in {"c1", "c2"} : \E o \in RecvOutcomes(c) :
         /\ out' = Append(out, Line("received", o.val))
         /\ buf' = BufAfterRecv(c, o)
         /\ pc' = PcAfterRecv("main", "loop", o)
    /\ i' = i + 1
    /\ UNCHANGED <<fn, stalled, msg, closed, now, wakeAt, readyAt, deadline, selStart,
                   j, cj, more, pongMsg>>

\* case <-time.After(5 * time.Second)
SelectTimeout ==
    /\ fn = "testSelect" /\ pc["main"] = "select"
    /\ TimerReady
    /\ out' = Append(out, Line("TIMEOUT", ""))
    /\ pc' = [pc EXCEPT !["main"] = "loop"]
    /\ i' = i + 1
    /\ UNCHANGED <<fn, stalled, msg, buf, closed, now, wakeAt, readyAt, deadline, selStart,
                   j, cj, more, pongMsg>>

(***************************************************************************)
(* worker and testSyncWithWorker                                           *)
(***************************************************************************)

\* go worker(done)
SyncGo ==
    /\ fn = "testSyncWithWorker" /\ pc["main"] = "go"
    /\ pc' = [pc EXCEPT !["main"] = "recv", !["worker"] = "print"]
    /\ UNCHANGED <<fn, stalled, msg, buf, closed, now, wakeAt, readyAt, deadline, selStart,
                   i, j, cj, more, pongMsg, out>>

\* fmt.Print("working...")
WorkerPrintWorking ==
    /\ pc["worker"] = "print"
    /\ out' = Append(out, Line("working...", ""))
    /\ pc' = [pc EXCEPT !["worker"] = "start"]
    /\ UNCHANGED <<fn, stalled, msg, buf, closed, now, wakeAt, readyAt, deadline, selStart,
                   i, j, cj, more, pongMsg>>

\* fmt.Println("done")
WorkerPrintDone ==
    /\ pc["worker"] = "printDone"
    /\ out' = Append(out, Line("done", ""))
    /\ pc' = [pc EXCEPT !["worker"] = "send"]
    /\ UNCHANGED <<fn, stalled, msg, buf, closed, now, wakeAt, readyAt, deadline, selStart,
                   i, j, cj, more, pongMsg>>

\* done <- true, into the buffer
WorkerSend ==
    /\ pc["worker"] = "send"
    /\ Len(buf["done"]) < Cap("done")
    /\ buf' = [buf EXCEPT !["done"] = Append(@, SendVal("worker"))]
    /\ pc' = [pc EXCEPT !["worker"] = AfterSend("worker")]
    /\ UNCHANGED <<fn, stalled, msg, closed, now, wakeAt, readyAt, deadline, selStart,
                   i, j, cj, more, pongMsg, out>>

\* <-done in testSyncWithWorker
SyncRecv ==
    /\ fn = "testSyncWithWorker" /\ pc["main"] = "recv"
    /\ \E o \in RecvOutcomes("done") :
         /\ buf' = BufAfterRecv("done", o)
         /\ pc' = PcAfterRecv("main", "ret", o)
    /\ UNCHANGED <<fn, stalled, msg, closed, now, wakeAt, readyAt, deadline, selStart,
                   i, j, cj, more, pongMsg, out>>

(***************************************************************************)
(* ping, pong and testChannelDirections                                    *)
(***************************************************************************)

\* ping(channelOne, msg): insertOnlyChannel <- msg
Ping ==
    /\ fn = "testChannelDirections" /\ pc["main"] = "ping"
    /\ Len(buf["channelOne"]) < Cap("channelOne")
    /\ buf' = [buf EXCEPT !["channelOne"] = Append(@, SendVal("main"))]
    /\ pc' = [pc EXCEPT !["main"] = AfterSend("main")]
    /\ UNCHANGED <<fn, stalled, msg, closed, now, wakeAt, readyAt, deadline, selStart,
                   i, j, cj, more, pongMsg, out>>

\* pong(channelTwo, channelOne): msg := <-popOnlyChannel
PongRecv ==
    /\ fn = "testChannelDirections" /\ pc["main"] = "pongRecv"
    /\ \E o \in RecvOutcomes("channelOne") :
         /\ pongMsg' = o.val
         /\ buf' = BufAfterRecv("channelOne", o)
         /\ pc' = PcAfterRecv("main", "pongSend", o)
    /\ UNCHANGED <<fn, stalled, msg, closed, now, wakeAt, readyAt, deadline, selStart,
                   i, j, cj, more, out>>

\* pong: insertOnlyChannel <- msg
PongSend ==
    /\ fn = "testChannelDirections" /\ pc["main"] = "pongSend"
    /\ Len(buf["channelTwo"]) < Cap("channelTwo")
    /\ buf' = [buf EXCEPT !["channelTwo"] = Append(@, SendVal("main"))]
    /\ pc' = [pc EXCEPT !["main"] = AfterSend("main")]
    /\ UNCHANGED <<fn, stalled, msg, closed, now, wakeAt, readyAt, deadline, selStart,
                   i, j, cj, more, pongMsg, out>>

\* fmt.Println(<-channelTwo)
DirectionsPrint ==
    /\ fn = "testChannelDirections" /\ pc["main"] = "final"
    /\ \E o \in RecvOutcomes("channelTwo") :
         /\ out' = Append(out, Line(o.val, ""))
         /\ buf' = BufAfterRecv("channelTwo", o)
         /\ pc' = PcAfterRecv("main", "ret", o)
    /\ UNCHANGED <<fn, stalled, msg, closed, now, wakeAt, readyAt, deadline, selStart,
                   i, j, cj, more, pongMsg>>

(***************************************************************************)
(* testNonBlockingChannelsWithSelect                                       *)
(***************************************************************************)

\* The receive cases of the first select that are ready
ReadyReads == {c \in {"channel1", "channel2"} : RecvReady(c)}

\* select { case msg := <-channel1 / case msg2 := <-channel2 / default }
NonBlockingRead ==
    /\ fn = "testNonBlockingChannelsWithSelect" /\ pc["main"] = "selectRead"
    /\ IF ReadyReads = {}
       THEN /\ out' = Append(out, Line("nothing here", ""))
            /\ pc' = [pc EXCEPT !["main"] = "selectWrite"]
            /\ buf' = buf
       ELSE \E c \in ReadyReads : \E o \in RecvOutcomes(c) :
              /\ out' = Append(out, Line(IF c = "channel1" THEN "first msg"
                                                           ELSE "second msg", o.val))
              /\ buf' = BufAfterRecv(c, o)
              /\ pc' = PcAfterRecv("main", "selectWrite", o)
    /\ UNCHANGED <<fn, stalled, msg, closed, now, wakeAt, readyAt, deadline, selStart,
                   i, j, cj, more, pongMsg>>

\* select { case channel2 <- "hi" / default }
NonBlockingWrite ==
    /\ fn = "testNonBlockingChannelsWithSelect" /\ pc["main"] = "selectWrite"
    /\ IF SendReady("channel2")
       THEN /\ buf' = [buf EXCEPT !["channel2"] = Append(@, "hi")]
            /\ out' = Append(out, Line("sent", ""))
       ELSE /\ buf' = buf
            /\ out' = Append(out, Line("no one to receive", ""))
    /\ pc' = [pc EXCEPT !["main"] = "ret"]
    /\ UNCHANGED <<fn, stalled, msg, closed, now, wakeAt, readyAt, deadline, selStart,
                   i, j, cj, more, pongMsg>>

(***************************************************************************)
(* testClosingChannels                                                     *)
(***************************************************************************)

\* go func() { for { j, more := <-jobs ... } }()
ClosingGo ==
    /\ fn = "testClosingChannels" /\ pc["main"] = "go"
    /\ pc' = [pc EXCEPT !["main"] = "send", !["consumer"] = "recv"]
    /\ UNCHANGED <<fn, stalled, msg, buf, closed, now, wakeAt, readyAt, deadline, selStart,
                   i, j, cj, more, pongMsg, out>>

\* j, more := <-jobs
ConsumerRecv ==
    /\ pc["consumer"] = "recv"
    /\ \E o \in RecvOutcomes("jobs") :
         /\ cj' = o.val
         /\ more' = o.ok
         /\ buf' = BufAfterRecv("jobs", o)
         /\ pc' = PcAfterRecv("consumer", "print", o)
    /\ UNCHANGED <<fn, stalled, msg, closed, now, wakeAt, readyAt, deadline, selStart,
                   i, j, pongMsg, out>>

\* if more { fmt.Println("received job", j) } else { fmt.Println("received all jobs")
ConsumerPrint ==
    /\ pc["consumer"] = "print"
    /\ IF more
       THEN /\ out' = Append(out, Line("received job", cj))
            /\ pc' = [pc EXCEPT !["consumer"] = "recv"]
       ELSE /\ out' = Append(out, Line("received all jobs", 0))
            /\ pc' = [pc EXCEPT !["consumer"] = "sendDone"]
    /\ UNCHANGED <<fn, stalled, msg, buf, closed, now, wakeAt, readyAt, deadline, selStart,
                   i, j, cj, more, pongMsg>>

\* jobs <- j
ClosingSend ==
    /\ fn = "testClosingChannels" /\ pc["main"] = "send"
    /\ Len(buf["jobs"]) < Cap("jobs")
    /\ buf' = [buf EXCEPT !["jobs"] = Append(@, SendVal("main"))]
    /\ pc' = [pc EXCEPT !["main"] = AfterSend("main")]
    /\ UNCHANGED <<fn, stalled, msg, closed, now, wakeAt, readyAt, deadline, selStart,
                   i, j, cj, more, pongMsg, out>>

\* fmt.Println("sent job", j); j++; j <= 3
ClosingPrintSent ==
    /\ fn = "testClosingChannels" /\ pc["main"] = "printSent"
    /\ out' = Append(out, Line("sent job", j))
    /\ j' = j + 1
    /\ pc' = [pc EXCEPT !["main"] = IF j + 1 <= NumJobs THEN "send" ELSE "close"]
    /\ UNCHANGED <<fn, stalled, msg, buf, closed, now, wakeAt, readyAt, deadline, selStart,
                   i, cj, more, pongMsg>>

\* close(jobs)
ClosingClose ==
    /\ fn = "testClosingChannels" /\ pc["main"] = "close"
    /\ closed' = [closed EXCEPT !["jobs"] = TRUE]
    /\ pc' = [pc EXCEPT !["main"] = "printAll"]
    /\ UNCHANGED <<fn, stalled, msg, buf, now, wakeAt, readyAt, deadline, selStart,
                   i, j, cj, more, pongMsg, out>>

\* fmt.Println("sent all jobs")
ClosingPrintAll ==
    /\ fn = "testClosingChannels" /\ pc["main"] = "printAll"
    /\ out' = Append(out, Line("sent all jobs", 0))
    /\ pc' = [pc EXCEPT !["main"] = "recvDone"]
    /\ UNCHANGED <<fn, stalled, msg, buf, closed, now, wakeAt, readyAt, deadline, selStart,
                   i, j, cj, more, pongMsg>>

\* <-done in testClosingChannels, taking the consumer's done <- true
ClosingRecvDone ==
    /\ fn = "testClosingChannels" /\ pc["main"] = "recvDone"
    /\ \E o \in RecvOutcomes("done") :
         /\ buf' = BufAfterRecv("done", o)
         /\ pc' = PcAfterRecv("main", "printDone", o)
    /\ UNCHANGED <<fn, stalled, msg, closed, now, wakeAt, readyAt, deadline, selStart,
                   i, j, cj, more, pongMsg, out>>

\* fmt.Println("Done processing jobs")
ClosingPrintDone ==
    /\ fn = "testClosingChannels" /\ pc["main"] = "printDone"
    /\ out' = Append(out, Line("Done processing jobs", 0))
    /\ pc' = [pc EXCEPT !["main"] = "ret"]
    /\ UNCHANGED <<fn, stalled, msg, buf, closed, now, wakeAt, readyAt, deadline, selStart,
                   i, j, cj, more, pongMsg>>

(***************************************************************************)
(* The scheduler and the clock                                             *)
(***************************************************************************)

\* A step of a goroutine that is able to run
Step ==
    \/ \E p \in Procs : Sleep(p)
    \/ SelectGo1 \/ SelectGo2 \/ SelectLoop \/ SelectRecv \/ SelectTimeout
    \/ SyncGo \/ WorkerPrintWorking \/ WorkerPrintDone \/ WorkerSend \/ SyncRecv
    \/ Ping \/ PongRecv \/ PongSend \/ DirectionsPrint
    \/ NonBlockingRead \/ NonBlockingWrite
    \/ ClosingGo \/ ConsumerRecv \/ ConsumerPrint \/ ClosingSend
    \/ ClosingPrintSent \/ ClosingClose \/ ClosingPrintAll
    \/ ClosingRecvDone \/ ClosingPrintDone

\* Something is waiting on the clock: a sleeping goroutine or a select's timer
TimePending ==
    \/ \E p \in Procs : pc[p] = "sleeping"
    \/ pc["main"] = "select"

\* Some goroutine is able to run: a statement can complete, or a time.Sleep
\* has reached its end
Runnable ==
    \/ ENABLED Step
    \/ \E p \in Procs : pc[p] = "sleeping" /\ now >= wakeAt[p]

\* A second passes, whether or not a goroutine was able to run
Tick ==
    /\ TimePending
    /\ \A p \in Procs : pc[p] = "sleeping" => now < wakeAt[p] + MaxLate
    /\ pc["main"] = "select" => now < deadline + MaxLate
    /\ now' = now + 1
    /\ stalled' = (stalled \/ Runnable)
    /\ UNCHANGED <<fn, msg, pc, buf, closed, wakeAt, readyAt, deadline, selStart,
                   i, j, cj, more, pongMsg, out>>

Next ==
    \/ Step
    \/ \E p \in Procs : Wake(p)
    \/ Tick

Spec == Init /\ [][Next]_vars

\* The steps of testClosingChannels' caller
ClosingMain ==
    \/ ClosingGo \/ ClosingSend \/ ClosingPrintSent \/ ClosingClose
    \/ ClosingPrintAll \/ ClosingRecvDone \/ ClosingPrintDone

\* The steps of testClosingChannels' consumer goroutine
ClosingConsumer == ConsumerRecv \/ ConsumerPrint

\* testClosingChannels alone: its caller and its consumer goroutine
ClosingInit == Init /\ fn = "testClosingChannels"
ClosingNext == ClosingMain \/ ClosingConsumer

\* The Go scheduler runs every goroutine that stays able to run
FairSpec ==
    /\ ClosingInit /\ [][ClosingNext]_vars
    /\ WF_vars(ClosingMain) /\ WF_vars(ClosingConsumer)

(***************************************************************************)
(* Properties                                                              *)
(***************************************************************************)

\* testSelect's producers and the value each sends
Producers == {"p1", "p2"}
ValueOf(p) == IF p = "p1" THEN "one" ELSE "two"

\* The positions in the output of the line "received v"
ReceivedAt(v) == {k \in 1..Len(out) : out[k] = Line("received", v)}

\* The positions in the output of the line "TIMEOUT"
TimeoutAt == {k \in 1..Len(out) : out[k] = Line("TIMEOUT", "")}

\* A producer's time.Sleep has returned: its work is complete
Completed(p) == pc[p] \in {"send", "end"}

\* testSelect has returned
SelectReturned == fn = "testSelect" /\ pc["main"] = "ret"

\* C1: once testSelect's loop is over, each of the two producers' values has
\* been returned by exactly one wait: two waits returned a result, none twice,
\* none lost.
C1_EveryResultExactlyOnce ==
    SelectReturned =>
        /\ \A p \in Producers : Cardinality(ReceivedAt(ValueOf(p))) = 1
        /\ Len(out) = NumWaits

\* Every wait of testSelect so far ended with one outcome: a result or TIMEOUT
OneOutcomePerWait ==
    /\ Len(out) = i
    /\ \A k \in 1..Len(out) :
          out[k] \in {Line("received", "one"), Line("received", "two"),
                      Line("TIMEOUT", "")}

\* C2 as claimed: every wait of testSelect ends with one outcome, and a select
\* is never still waiting, and never returns, later than five seconds after
\* it was entered.
C2_WaitEndsByDeadline ==
    fn = "testSelect" =>
        /\ OneOutcomePerWait
        /\ pc["main"] \in {"select", "loop"} => now <= selStart + TimeoutSecs

\* C2 as amended: every wait of testSelect ends with one outcome and is never
\* blocked for good: before the deadline time can pass or a goroutine can
\* run, and from five seconds after the select was entered its time.After
\* case is ready, so the wait ends as soon as the caller runs; when no
\* goroutine has been delayed across a second that is by the deadline.
C2_WaitCanEndAtDeadline ==
    fn = "testSelect" =>
        /\ OneOutcomePerWait
        /\ pc["main"] = "select" =>
              /\ now >= selStart + TimeoutSecs => ENABLED SelectTimeout
              /\ now < selStart + TimeoutSecs => (ENABLED Tick \/ Runnable)
        /\ (pc["main"] \in {"select", "loop"} /\ ~stalled)
              => now <= selStart + TimeoutSecs

\* C2 witness: both waits timed out and no producer had sent.
C2_Witness ==
    /\ SelectReturned
    /\ out = <<Line("TIMEOUT", ""), Line("TIMEOUT", "")>>
    /\ \A p \in Producers : pc[p] # "end"

\* No value has been received while a producer that completed strictly
\* earlier was still undelivered
NoOvertaking ==
    \A p, q \in Producers :
        (/\ Completed(p) /\ Completed(q)
         /\ readyAt[p] < readyAt[q]
         /\ ReceivedAt(ValueOf(q)) # {})
        => \E a \in ReceivedAt(ValueOf(p)) :
              \A b \in ReceivedAt(ValueOf(q)) : a < b

\* C3 as claimed: results are delivered in completion order: no value is
\* received while an earlier-completed producer is undelivered, and "one" is
\* always received before "two".
C3_CompletionOrder ==
    fn = "testSelect" =>
        /\ NoOvertaking
        /\ ReceivedAt("two") # {} =>
              \E a \in ReceivedAt("one") : \A b \in ReceivedAt("two") : a < b

\* C3 as amended: when no goroutine has been delayed across a second, results
\* are delivered in completion order: the output is "received one", then
\* "received two".
C3_CompletionOrderUndelayed ==
    (fn = "testSelect" /\ ~stalled) =>
        /\ NoOvertaking
        /\ out \in {<<>>, <<Line("received", "one")>>,
                     <<Line("received", "one"), Line("received", "two")>>}
        /\ pc["main"] = "ret" =>
              out = <<Line("received", "one"), Line("received", "two")>>

\* C3 witness: nothing was delayed, the producers completed after one and two
\* seconds and testSelect returned having printed one, then two.
C3_Witness ==
    /\ SelectReturned /\ ~stalled
    /\ readyAt["p1"] = 1 /\ readyAt["p2"] = 2
    /\ out = <<Line("received", "one"), Line("received", "two")>>

\* C3, the other order: the c1 producer is ready first and the c2 producer's
\* value is returned first.
C3_WitnessOvertaken ==
    /\ fn = "testSelect"
    /\ pc["p1"] = "send" /\ pc["p2"] = "end" /\ readyAt["p1"] < readyAt["p2"]
    /\ ReceivedAt("two") # {}

\* C4: a timeout drops nothing.  When a wait of testSelect has timed out,
\* every producer's value is still received by a later wait before testSelect
\* returns.
C4_TimeoutDropsNoResult ==
    (SelectReturned /\ TimeoutAt # {}) =>
        \A p \in Producers : ReceivedAt(ValueOf(p)) # {}

\* C5: when the consuming function returns, every producer of it has completed
\* its one send (none is parked on it or yet to reach it) and its channel has
\* been received from once.
C5_OneSendOneReceive ==
    /\ SelectReturned =>
          \A p \in Producers :
              pc[p] = "end" /\ Cardinality(ReceivedAt(ValueOf(p))) = 1
    /\ (fn = "testSyncWithWorker" /\ pc["main"] = "ret") =>
          pc["worker"] = "end" /\ buf["done"] = <<>>

\* The jobs the consumer printed as received, in order
ReceivedJobs == SelectSeq(out, LAMBDA l : l[1] = "received job")

\* The consumer has seen more == false
SawClosed == pc["consumer"] \in {"print", "sendDone", "end"} /\ ~more

\* Some line of the output has this text
Printed(text) == \E k \in 1..Len(out) : out[k][1] = text

\* C6: in testClosingChannels the consumer receives the jobs 1, 2, 3 in send
\* order, each once; it sees more == false only when all three were received
\* and jobs is closed; it prints "received all jobs" and sends on done only
\* then; and "Done processing jobs" is printed only after the done signal.
C6_JobsSurviveClose ==
    fn = "testClosingChannels" =>
        /\ Len(ReceivedJobs) <= NumJobs
        /\ \A k \in 1..Len(ReceivedJobs) : ReceivedJobs[k][2] = k
        /\ SawClosed => closed["jobs"] /\ Len(ReceivedJobs) = NumJobs
        /\ (Printed("received all jobs") \/ pc["consumer"] \in {"sendDone", "end"})
              => SawClosed
        /\ Printed("Done processing jobs") =>
              pc["consumer"] = "end" /\ Printed("received all jobs")
        /\ pc["main"] = "ret" => Printed("Done processing jobs")

\* C6 witness: testClosingChannels returned with all three jobs received
\* after some of them were still buffered when jobs was closed.
C6_Witness ==
    /\ fn = "testClosingChannels" /\ pc["main"] = "ret"
    /\ Len(ReceivedJobs) = NumJobs
    /\ \E k \in 1..Len(out) : \E m \in 1..Len(out) :
          k < m /\ out[k] = Line("sent all jobs", 0) /\ out[m] = Line("received job", 1)

\* A statement of testChannelDirections can complete
DirectionsCanStep == ENABLED (Ping \/ PongRecv \/ PongSend \/ DirectionsPrint)

\* C7: testChannelDirections runs in the calling goroutine alone and never
\* blocks: every statement it reaches can complete, each channel holds at
\* most one value, and the value printed is the message given to ping.
C7_DirectionsNeverBlock ==
    fn = "testChannelDirections" =>
        /\ \A p \in Procs \ {"main"} : pc[p] = "none"
        /\ pc["main"] # "ret" => DirectionsCanStep
        /\ Len(buf["channelOne"]) <= 1 /\ Len(buf["channelTwo"]) <= 1
        /\ pc["main"] = "ret" =>
              /\ out = <<Line(msg, "")>>
              /\ buf["channelOne"] = <<>> /\ buf["channelTwo"] = <<>>

\* C7 witness: testChannelDirections returned having printed its message.
C7_Witness ==
    /\ fn = "testChannelDirections" /\ pc["main"] = "ret"
    /\ out = <<Line(msg, "")>> /\ pongMsg = msg

\* A select of testNonBlockingChannelsWithSelect can complete
NonBlockingCanStep == ENABLED (NonBlockingRead \/ NonBlockingWrite)

\* C8: testNonBlockingChannelsWithSelect never blocks: both selects can
\* always complete, both take their default branch, nothing is sent or
\* received, and the function returns with both channels empty.
C8_NonBlockingDefaults ==
    fn = "testNonBlockingChannelsWithSelect" =>
        /\ \A p \in Procs \ {"main"} : pc[p] = "none"
        /\ pc["main"] # "ret" => NonBlockingCanStep
        /\ buf["channel1"] = <<>> /\ buf["channel2"] = <<>>
        /\ pc["main"] = "selectWrite" => out = <<Line("nothing here", "")>>
        /\ pc["main"] = "ret" =>
              out = <<Line("nothing here", ""), Line("no one to receive", "")>>

\* C8 witness: the function returned after both default branches.
C8_Witness ==
    /\ fn = "testNonBlockingChannelsWithSelect" /\ pc["main"] = "ret"
    /\ Len(out) = 2 /\ out[2] = Line("no one to receive", "")

\* C9: testSyncWithWorker returns only after the worker has printed "done"
\* and sent true, and the worker's send always has buffer room, so it
\* completes without the caller.
C9_CallerWaitsForWorker ==
    fn = "testSyncWithWorker" =>
        /\ pc["main"] = "ret" =>
              /\ pc["worker"] = "end"
              /\ out = <<Line("working...", ""), Line("done", "")>>
        /\ pc["worker"] = "send" =>
              /\ Len(buf["done"]) < Cap("done")
              /\ out = <<Line("working...", ""), Line("done", "")>>
        /\ buf["done"] # <<>> => buf["done"] = <<TRUE>> /\ pc["worker"] = "end"

\* C9 witness: the worker has sent and ended while the caller has not yet
\* received.
C9_Witness ==
    /\ fn = "testSyncWithWorker"
    /\ pc["worker"] = "end" /\ pc["main"] = "recv" /\ buf["done"] = <<TRUE>>

\* C9 witness: the caller has received and returned.
C9_WitnessReturned ==
    fn = "testSyncWithWorker" /\ pc["main"] = "ret" /\ pc["worker"] = "end"

\* testClosingChannels is over: caller and consumer have both returned
ClosingDone ==
    /\ pc["main"] = "ret" /\ pc["consumer"] = "end"
    /\ buf["jobs"] = <<>> /\ buf["done"] = <<>>

\* C10: under fair scheduling testClosingChannels terminates: its sends on
\* jobs always have buffer room, and eventually the caller has returned and
\* the consumer has ended, with nothing left in either channel.
C10_ClosingTerminates ==
    /\ [](fn = "testClosingChannels" /\ pc["main"] = "send"
            => Len(buf["jobs"]) < Cap("jobs"))
    /\ (fn = "testClosingChannels") ~> ClosingDone

\* C10 witness: caller and consumer of testClosingChannels have both ended.
C10_Witness == fn = "testClosingChannels" /\ ClosingDone /\ Len(out) = 9

====
